---- MODULE Spec2Model ----
(***************************************************************************)
(* The LLM interaction runtime of strix: the admission-controlled request  *)
(* gateway (strix/llm/request_queue.py) and the generate retry loop with   *)
(* its stream assembler (strix/llm/llm.py, strix/llm/utils.py).            *)
(*                                                                         *)
(* Text is a sequence of one-character strings, so that substring search,  *)
(* truncation and the tool-call grammar work on characters as in Python.   *)
(* Time is in whole seconds.                                               *)
(***************************************************************************)
EXTENDS Integers, Sequences, FiniteSets, TLC

VARIABLES
    now,                     \* time.time(), in seconds
    horizon,                 \* last instant up to which Tick lets the clock run
    max_concurrent,          \* LLMRequestQueue.max_concurrent
    delay_between_requests,  \* LLMRequestQueue.delay_between_requests
    semaphore,               \* value of LLMRequestQueue._semaphore
    lock_owner,              \* holder of LLMRequestQueue._lock, 0 when free
    last_request_time,       \* LLMRequestQueue._last_request_time
    pc,                      \* where each caller stands
    agents,                  \* the callers that call generate; the others iterate stream_request
    holds,                   \* callers whose acquire() returned True and who have not released
    sleep_needed,            \* local sleep_needed of stream_request
    wake,                    \* deadline of the asyncio.sleep a caller is in
    exc,                     \* exception leaving stream_request (NoExc when none)
    chunk,                   \* text delta of the chunk just yielded to the consumer
    nchunks,                 \* chunks a call of generate has consumed so far
    dispatches,              \* instants at which upstream calls were issued, in order
    cancelled,               \* callers that were sent a cancellation
    outcome,                 \* how the caller's call ended
    attempt,                 \* loop variable of generate
    requests,                \* _total_stats.requests of the caller's LLM
    accumulated_content,     \* local of _stream_and_accumulate
    last_error,              \* local of generate
    waits,                   \* wait_time values generate slept, in order
    results,                 \* LLMResponse objects the caller received, in order
    raised,                  \* exception generate raised to the caller
    step,                    \* which text function has been applied to the input
    deltas,                  \* text deltas of the chunks of one upstream stream
    tool_name,               \* argument of format_tool_call
    tool_args,               \* argument of format_tool_call: (key, value) pairs in order
    text,                    \* text a function of utils.py or the assembler returned
    repaired_again,          \* fix_incomplete_tool_call applied to its own result
    invocations,             \* what parse_tool_invocations or the assembler returned
    prep,                    \* where _prepare_messages stands
    agent_name,              \* LLM.agent_name is set
    conversation_history,    \* items of the list object the caller passed to generate
    returned,                \* the list compress_history returned
    compressor_result,       \* items of that list when it was returned
    compressed_history,      \* local of _prepare_messages
    messages,                \* local of _prepare_messages, then of generate
    compressions,            \* calls of compress_history in this call of generate
    replacements,            \* times the caller's list was cleared and refilled
    attempt_messages,        \* the list each attempt gave to _stream_and_accumulate, in order
    cache_step,              \* whether _prepare_cached_messages has run
    config,                  \* enable_prompt_caching, supports_prompt_caching(model),
                             \* _is_anthropic_model(), _model_supports_vision()
    cache_input,             \* argument of _prepare_cached_messages
    cached_messages,         \* what _prepare_cached_messages returned
    stored,                  \* the message dicts the caller's history holds, as they are now
    request_messages,        \* completion_args["messages"] of LLM._stream_request
    stats_pc,                \* whether an upstream attempt of the LLM object is under way
    total_stats,             \* LLM._total_stats
    last_request_stats,      \* LLM._last_request_stats
    global_queue,            \* _global_queue: 0 for None, or the instance
    instances,               \* LLMRequestQueue objects constructed so far
    thread_pc,               \* where each thread stands in get_global_queue
    constructed,             \* the instance a thread has built and not yet stored
    got                      \* instances get_global_queue returned to each thread

gatewayVars == <<max_concurrent, delay_between_requests, semaphore, lock_owner,
                 last_request_time, holds, sleep_needed>>
callVars == <<pc, wake, exc, chunk, nchunks, dispatches, cancelled, outcome>>
generateVars == <<attempt, requests, accumulated_content, last_error, waits,
                  results, raised>>
runtimeVars == <<now, horizon, agents, gatewayVars, callVars, generateVars>>
textVars == <<step, deltas, tool_name, tool_args, text, repaired_again, invocations>>
historyVars == <<prep, agent_name, conversation_history, returned, compressor_result,
                 compressed_history, messages, compressions, replacements,
                 attempt_messages>>
cacheVars == <<cache_step, config, cache_input, cached_messages, stored, request_messages>>
statsVars == <<stats_pc, total_stats, last_request_stats>>
queueVars == <<global_queue, instances, thread_pc, constructed, got>>
auxVars == <<textVars, historyVars, cacheVars, statsVars, queueVars>>
besidesText == <<runtimeVars, historyVars, cacheVars, statsVars, queueVars>>
besidesHistory == <<runtimeVars, textVars, cacheVars, statsVars, queueVars>>
besidesCache == <<runtimeVars, textVars, historyVars, statsVars, queueVars>>
besidesStats == <<runtimeVars, textVars, historyVars, cacheVars, queueVars>>
besidesQueue == <<runtimeVars, textVars, historyVars, cacheVars, statsVars>>
vars == <<runtimeVars, auxVars>>

----------------------------------------------------------------------------
(* Bounds of the model *)

NumSubmitters == 3     \* callers of stream_request in SpecGateway
NumOthers == 1         \* callers of stream_request beside the caller of generate in Spec
MaxChunks == 2         \* chunks one call of generate is sent at most, over all attempts
MaxTime == 10          \* seconds the clock of SpecGateway runs
StartTime == 20        \* time.time() when the callers start (any value >= the delay)

MaxCancels == 1        \* cancellations delivered in one run
NumWaiters == 2        \* callers of stream_request in SpecGatewayFair
MaxLog == 3            \* dispatches whose instants are kept in dispatches
MaxDeltas == 3         \* deltas of one stream in SpecText
MaxArgs == 2           \* arguments of one formatted call in SpecText
MaxHistory == 2        \* messages of a conversation history in SpecHistory
MaxMessages == 41      \* messages of a list given to the cache policy in SpecCache
NumThreads == 2        \* threads that call get_global_queue in SpecQueue
MaxRequests == 6       \* upstream attempts of one LLM object in SpecStats
DefaultDelay == 4      \* delay_between_requests: float = 4.0

Max(a, b) == IF a >= b THEN a ELSE b
Min(a, b) == IF a <= b THEN a ELSE b

Procs == DOMAIN pc

----------------------------------------------------------------------------
(* Exceptions *)

NoStatus == -1

NoExc == [type |-> "None", status |-> NoStatus, detail |-> ""]
CancelledError == [type |-> "CancelledError", status |-> NoStatus, detail |-> ""]
SemaphoreValueError ==
    [type |-> "ValueError", status |-> NoStatus,
     detail |-> "Semaphore released too many times"]

\* what a call of generate raised to its caller
NoRaise == [type |-> "None", message |-> "", details |-> ""]
CancelledRaise == [type |-> "CancelledError", message |-> "", details |-> ""]

\* failures the upstream transport raises
UpstreamFailures ==
    { [type |-> "RateLimitError", status |-> 429, detail |-> "429 too many requests"],
      [type |-> "ContextWindowExceededError", status |-> 400, detail |-> "400 prompt too long"],
      [type |-> "RuntimeError", status |-> NoStatus, detail |-> "connection lost"] }

----------------------------------------------------------------------------
(* Text: sequences of one-character strings *)

FUNCTION_OPEN == <<"<", "f", "u", "n", "c", "t", "i", "o", "n", "=">>
FUNCTION_CLOSE == <<"<", "/", "f", "u", "n", "c", "t", "i", "o", "n", ">">>
PARAMETER_OPEN == <<"<", "p", "a", "r", "a", "m", "e", "t", "e", "r", "=">>
PARAMETER_CLOSE == <<"<", "/", "p", "a", "r", "a", "m", "e", "t", "e", "r", ">">>

Whitespace == {" ", "\n", "\t", "\r"}

MinOf(S) == CHOOSE x \in S : \A y \in S : x <= y

\* s[i:].startswith(pat), positions counted from 1
StartsWithAt(s, i, pat) ==
    /\ i >= 1
    /\ i + Len(pat) - 1 <= Len(s)
    /\ SubSeq(s, i, i + Len(pat) - 1) = pat

\* s.find(pat, i): position of the first occurrence at or after i, 0 when none
FindFrom(s, pat, i) ==
    LET hits == {j \in i..(Len(s) - Len(pat) + 1) : StartsWithAt(s, j, pat)}
    IN  IF hits = {} THEN 0 ELSE MinOf(hits)

Contains(s, pat) == FindFrom(s, pat, 1) # 0

EndsWith(s, pat) == Len(s) >= Len(pat) /\ SubSeq(s, Len(s) - Len(pat) + 1, Len(s)) = pat

\* s.count(pat)
RECURSIVE CountFrom(_, _, _)
CountFrom(s, pat, i) ==
    LET j == FindFrom(s, pat, i)
    IN  IF j = 0 THEN 0 ELSE 1 + CountFrom(s, pat, j + Len(pat))

RECURSIVE rstrip(_)
rstrip(s) ==
    IF s # <<>> /\ s[Len(s)] \in Whitespace THEN rstrip(SubSeq(s, 1, Len(s) - 1)) ELSE s

RECURSIVE lstrip(_)
lstrip(s) ==
    IF s # <<>> /\ s[1] \in Whitespace THEN lstrip(Tail(s)) ELSE s

strip(s) == lstrip(rstrip(s))

\* html.unescape for the named references lt, gt and amp, with or without
\* the closing semicolon; replaced text is not scanned again
CharRefs == { <<<<"l", "t">>, "<">>, <<<<"g", "t">>, ">">>, <<<<"a", "m", "p">>, "&">> }

RECURSIVE unescape(_)
unescape(s) ==
    IF s = <<>> THEN <<>>
    ELSE LET refs == {r \in CharRefs : s[1] = "&" /\ StartsWithAt(s, 2, r[1])}
         IN  IF refs = {} THEN <<s[1]>> \o unescape(Tail(s))
             ELSE LET r == CHOOSE x \in refs : TRUE
                      after == 2 + Len(r[1])
                      next == IF after <= Len(s) /\ s[after] = ";" THEN after + 1 ELSE after
                  IN  <<r[2]>> \o unescape(SubSeq(s, next, Len(s)))

----------------------------------------------------------------------------
(* strix/llm/utils.py *)

\* (a variant that keeps what follows the closer)
TruncateAtFunctionEndKept(content) == content

\* content[:function_end] with function_end = find("</function>") + len("</function>")
TruncateAtFunctionEnd(content) ==
    IF Contains(content, FUNCTION_CLOSE)
       THEN SubSeq(content, 1, FindFrom(content, FUNCTION_CLOSE, 1) + Len(FUNCTION_CLOSE) - 1)
       ELSE content

\* (a variant that keeps the text whatever the number of openers)
_truncate_to_first_function_kept(content) == content

\* (a variant that keeps the whitespace before the second opener)
_truncate_to_first_function_unstripped(content) ==
    IF CountFrom(content, FUNCTION_OPEN, 1) >= 2
       THEN LET first == FindFrom(content, FUNCTION_OPEN, 1)
                second_function_start == FindFrom(content, FUNCTION_OPEN, first + Len(FUNCTION_OPEN))
            IN  SubSeq(content, 1, second_function_start - 1)
       ELSE content

_truncate_to_first_function(content) ==
    IF CountFrom(content, FUNCTION_OPEN, 1) >= 2
       THEN LET first == FindFrom(content, FUNCTION_OPEN, 1)
                second_function_start == FindFrom(content, FUNCTION_OPEN, first + Len(FUNCTION_OPEN))
            IN  rstrip(SubSeq(content, 1, second_function_start - 1))
       ELSE content

\* (a variant whose completion leaves the closer without its last character)
fix_incomplete_tool_call_unclosed(content) ==
    IF /\ Contains(content, FUNCTION_OPEN)
       /\ CountFrom(content, FUNCTION_OPEN, 1) = 1
       /\ ~Contains(content, FUNCTION_CLOSE)
       THEN rstrip(content) \o <<"\n">> \o SubSeq(FUNCTION_CLOSE, 1, Len(FUNCTION_CLOSE) - 1)
       ELSE content

\* (a variant that appends to the text as it is, whitespace included)
fix_incomplete_tool_call_unstripped(content) ==
    IF /\ Contains(content, FUNCTION_OPEN)
       /\ CountFrom(content, FUNCTION_OPEN, 1) = 1
       /\ ~Contains(content, FUNCTION_CLOSE)
       THEN IF EndsWith(content, <<"<", "/">>)
               THEN content \o <<"f", "u", "n", "c", "t", "i", "o", "n", ">">>
               ELSE content \o <<"\n">> \o FUNCTION_CLOSE
       ELSE content

fix_incomplete_tool_call(content) ==
    IF /\ Contains(content, FUNCTION_OPEN)
       /\ CountFrom(content, FUNCTION_OPEN, 1) = 1
       /\ ~Contains(content, FUNCTION_CLOSE)
       THEN IF EndsWith(rstrip(content), <<"<", "/">>)
               THEN rstrip(content) \o <<"f", "u", "n", "c", "t", "i", "o", "n", ">">>
               ELSE rstrip(content) \o <<"\n">> \o FUNCTION_CLOSE
       ELSE content

\* one match of  open ([^>]+) > newline? (.*?) close  starting at position i:
\* <<name, body, position after the match>>, or <<>> when there is none.
\* The optional newline belongs to the function pattern only.
TagMatchAt(s, i, open, close, newline) ==
    LET name_start == i + Len(open)
        gt == FindFrom(s, <<">">>, name_start)
        body_start == IF newline /\ gt # 0 /\ gt < Len(s) /\ s[gt + 1] = "\n"
                         THEN gt + 2 ELSE gt + 1
        close_start == IF gt = 0 THEN 0 ELSE FindFrom(s, close, body_start)
    IN  IF StartsWithAt(s, i, open) /\ gt > name_start /\ close_start # 0
           THEN << SubSeq(s, name_start, gt - 1),
                   SubSeq(s, body_start, close_start - 1),
                   close_start + Len(close) >>
           ELSE <<>>

\* re.finditer: the successive non-overlapping matches, left to right
RECURSIVE FindIter(_, _, _, _, _)
FindIter(s, i, open, close, newline) ==
    LET j == FindFrom(s, open, i)
    IN  IF j = 0 THEN <<>>
        ELSE LET m == TagMatchAt(s, j, open, close, newline)
             IN  IF m = <<>> THEN FindIter(s, j + 1, open, close, newline)
                 ELSE <<m>> \o FindIter(s, m[3], open, close, newline)

\* args[param_name] = param_value on a dict kept as a sequence of pairs
DictSet(args, key, value) ==
    IF \E k \in 1..Len(args) : args[k][1] = key
       THEN [k \in 1..Len(args) |-> IF args[k][1] = key THEN <<key, value>> ELSE args[k]]
       ELSE Append(args, <<key, value>>)

RECURSIVE CollectArgs(_, _)
CollectArgs(matches, args) ==
    IF matches = <<>> THEN args
    ELSE CollectArgs(Tail(matches),
                     DictSet(args, matches[1][1], unescape(strip(matches[1][2]))))

\* the list built by the loop of parse_tool_invocations
ToolInvocationList(content) ==
    LET fn_matches == FindIter(fix_incomplete_tool_call(content), 1,
                               FUNCTION_OPEN, FUNCTION_CLOSE, TRUE)
    IN  [k \in 1..Len(fn_matches) |->
            [toolName |-> fn_matches[k][1],
             args |-> CollectArgs(FindIter(fn_matches[k][2], 1,
                                           PARAMETER_OPEN, PARAMETER_CLOSE, FALSE), <<>>)]]

\* an optional list: None, or the list (which may be empty)
None == [is_none |-> TRUE, list |-> <<>>]
Some(list) == [is_none |-> FALSE, list |-> list]

\* a Python value used as a condition
Truthy(optional_list) == ~optional_list.is_none /\ optional_list.list # <<>>

\* (a variant that returns the list as it is, empty or not)
parse_tool_invocations_list(content) == Some(ToolInvocationList(content))

parse_tool_invocations(content) ==
    IF ToolInvocationList(content) # <<>> THEN Some(ToolInvocationList(content)) ELSE None

\* deltas the upstream streams to generate: a chunk without text (a role or
\* usage chunk), plain text, and a complete function block
Deltas ==
    { <<>>,
      <<"o", "k">>,
      FUNCTION_OPEN \o <<"f", ">">> \o FUNCTION_CLOSE }

\* no text is being worked on
TextIdle ==
    /\ step = "off"
    /\ deltas = <<>>
    /\ tool_name = <<>>
    /\ tool_args = <<>>
    /\ text = <<>>
    /\ repaired_again = <<>>
    /\ invocations = None

\* a list object as a variable holds it: the caller's own list object, whose
\* items are those of conversation_history, or another list with its items
CallersList == [same_object |-> TRUE, items |-> <<>>]
NewList(items) == [same_object |-> FALSE, items |-> items]
Items(list) == IF list.same_object THEN conversation_history ELSE list.items

\* _prepare_messages is not running
HistoryIdle ==
    /\ prep = "off"
    /\ agent_name = FALSE
    /\ conversation_history = <<>>
    /\ returned = NewList(<<>>)
    /\ compressor_result = <<>>
    /\ compressed_history = NewList(<<>>)
    /\ messages = <<>>
    /\ compressions = 0
    /\ replacements = 0
    /\ attempt_messages = <<>>

\* _prepare_cached_messages is not running
CacheIdle ==
    /\ cache_step = "off"
    /\ config = [enable_prompt_caching |-> FALSE, supports_prompt_caching |-> FALSE,
                 anthropic_model |-> FALSE, supports_vision |-> FALSE]
    /\ cache_input = <<>>
    /\ cached_messages = <<>>
    /\ stored = <<>>
    /\ request_messages = <<>>

\* RequestStats(requests=n): the other fields take their default, 0
RequestStats(n) ==
    [requests |-> n, failed_requests |-> 0, input_tokens |-> 0, output_tokens |-> 0,
     cached_tokens |-> 0, cache_creation_tokens |-> 0, cost |-> 0]

\* LLM.__init__, and no request made
StatsIdle ==
    /\ stats_pc = "off"
    /\ total_stats = RequestStats(0)
    /\ last_request_stats = RequestStats(0)

\* no thread calls get_global_queue
QueueIdle ==
    /\ global_queue = 0
    /\ instances = 0
    /\ thread_pc = <<>>
    /\ constructed = <<>>
    /\ got = <<>>

\* the parts of the program that a run of the gateway and of generate leaves alone
AuxIdle == TextIdle /\ HistoryIdle /\ CacheIdle /\ StatsIdle /\ QueueIdle

----------------------------------------------------------------------------
(* LLMRequestQueue.stream_request *)

\* the finally clause: BoundedSemaphore.release() raises ValueError when the
\* value would exceed the initial value, and that exception replaces the one
\* in flight
ReleaseRaises == semaphore + 1 > max_concurrent

\* (a variant that releases on the normal and the error path only)
FinallySkippedOnCancel(c, e) ==
    /\ semaphore' = IF ReleaseRaises \/ e = CancelledError THEN semaphore ELSE semaphore + 1
    /\ exc' = [exc EXCEPT ![c] = IF ReleaseRaises /\ e # CancelledError
                                    THEN SemaphoreValueError ELSE e]
    /\ holds' = holds \ {c}
    /\ sleep_needed' = [sleep_needed EXCEPT ![c] = 0]
    /\ wake' = [wake EXCEPT ![c] = 0]
    /\ pc' = [pc EXCEPT ![c] = "exited"]

Finally(c, e) ==
    /\ semaphore' = IF ReleaseRaises THEN semaphore ELSE semaphore + 1
    /\ exc' = [exc EXCEPT ![c] = IF ReleaseRaises THEN SemaphoreValueError ELSE e]
    /\ holds' = holds \ {c}
    /\ sleep_needed' = [sleep_needed EXCEPT ![c] = 0]
    /\ wake' = [wake EXCEPT ![c] = 0]
    /\ pc' = [pc EXCEPT ![c] = "exited"]

\* self._semaphore.acquire(timeout=0.2) returns True
Acquire(c) ==
    /\ pc[c] = "acquire"
    /\ semaphore > 0
    /\ semaphore' = semaphore - 1
    /\ holds' = holds \cup {c}
    /\ pc' = [pc EXCEPT ![c] = "lock"]
    /\ UNCHANGED <<auxVars, now, horizon, agents, max_concurrent, delay_between_requests, lock_owner,
                   last_request_time, sleep_needed, wake, exc, chunk, nchunks,
                   dispatches, cancelled, outcome, generateVars>>

\* self._semaphore.acquire(timeout=0.2) returns False: await asyncio.sleep(0.1)
AcquireTimeout(c) ==
    /\ pc[c] = "acquire"
    /\ semaphore = 0
    /\ pc' = [pc EXCEPT ![c] = "poll_sleep"]
    /\ UNCHANGED <<auxVars, now, horizon, agents, gatewayVars, wake, exc, chunk, nchunks, dispatches,
                   cancelled, outcome, generateVars>>

\* asyncio.sleep(0.1) returns
PollWake(c) ==
    /\ pc[c] = "poll_sleep"
    /\ pc' = [pc EXCEPT ![c] = "acquire"]
    /\ UNCHANGED <<auxVars, now, horizon, agents, gatewayVars, wake, exc, chunk, nchunks, dispatches,
                   cancelled, outcome, generateVars>>

\* with self._lock: entered
Lock(c) ==
    /\ pc[c] = "lock"
    /\ lock_owner = 0
    /\ lock_owner' = c
    /\ pc' = [pc EXCEPT ![c] = "scheduling"]
    /\ UNCHANGED <<auxVars, now, horizon, agents, max_concurrent, delay_between_requests, semaphore,
                   last_request_time, holds, sleep_needed, wake, exc, chunk,
                   nchunks, dispatches, cancelled, outcome, generateVars>>

\* the instants of the first MaxLog dispatches are kept
Logged(log, t) == IF Len(log) < MaxLog THEN Append(log, t) ELSE log

\* (a variant that measures the delay from the start of the clock)
SleepNeededSinceEpoch == Max(0, delay_between_requests - now)

SleepNeeded == Max(0, delay_between_requests - (now - last_request_time))

\* (a variant that does not reserve the slot the caller sleeps towards)
ReservedTimeNow == now

ReservedTime == now + SleepNeeded

\* (a variant that leaves the with block only after the spacing sleep)
ScheduleHoldingLock(c) ==
    /\ pc[c] = "scheduling"
    /\ lock_owner = c
    /\ sleep_needed' = [sleep_needed EXCEPT ![c] = SleepNeeded]
    /\ last_request_time' = ReservedTime
    /\ lock_owner' = IF SleepNeeded > 0 THEN c ELSE 0
    /\ IF SleepNeeded > 0
          THEN /\ pc' = [pc EXCEPT ![c] = "space_sleep"]
               /\ wake' = [wake EXCEPT ![c] = now + SleepNeeded]
               /\ UNCHANGED dispatches
          ELSE /\ pc' = [pc EXCEPT ![c] = "stream"]
               /\ dispatches' = Logged(dispatches, now)
               /\ UNCHANGED wake
    /\ UNCHANGED <<auxVars, now, horizon, agents, max_concurrent, delay_between_requests, semaphore,
                   holds, exc, chunk, nchunks, cancelled, outcome, generateVars>>

\* the body of the with block, the release of the lock, and, when no sleep
\* is needed, the upstream call
Schedule(c) ==
    /\ pc[c] = "scheduling"
    /\ lock_owner = c
    /\ sleep_needed' = [sleep_needed EXCEPT ![c] = SleepNeeded]
    /\ last_request_time' = ReservedTime
    /\ lock_owner' = 0
    /\ IF SleepNeeded > 0
          THEN /\ pc' = [pc EXCEPT ![c] = "space_sleep"]
               /\ wake' = [wake EXCEPT ![c] = now + SleepNeeded]
               /\ UNCHANGED dispatches
          ELSE /\ pc' = [pc EXCEPT ![c] = "stream"]
               /\ dispatches' = Logged(dispatches, now)
               /\ UNCHANGED wake
    /\ UNCHANGED <<auxVars, now, horizon, agents, max_concurrent, delay_between_requests, semaphore,
                   holds, exc, chunk, nchunks, cancelled, outcome, generateVars>>

\* asyncio.sleep(sleep_needed) returns; the upstream call is issued
SpacingWake(c) ==
    /\ pc[c] = "space_sleep"
    /\ now >= wake[c]
    /\ pc' = [pc EXCEPT ![c] = "stream"]
    /\ dispatches' = Logged(dispatches, now)
    /\ UNCHANGED <<auxVars, now, horizon, agents, gatewayVars, wake, exc, chunk, nchunks, cancelled,
                   outcome, generateVars>>

\* the upstream produces a chunk, which stream_request yields; a caller of
\* generate is sent MaxChunks chunks at most over its attempts
UpstreamChunk(c, d) ==
    /\ pc[c] = "stream"
    /\ c \in agents => nchunks[c] < MaxChunks
    /\ chunk' = [chunk EXCEPT ![c] = d]
    /\ pc' = [pc EXCEPT ![c] = "yielded"]
    /\ UNCHANGED <<auxVars, now, horizon, agents, gatewayVars, wake, exc, nchunks, dispatches,
                   cancelled, outcome, generateVars>>

\* the upstream stream ends
UpstreamEnd(c) ==
    /\ pc[c] = "stream"
    /\ Finally(c, NoExc)
    /\ UNCHANGED <<auxVars, now, horizon, agents, max_concurrent, delay_between_requests, lock_owner,
                   last_request_time, chunk, nchunks, dispatches, cancelled, outcome,
                   generateVars>>

\* acompletion or the iteration of its response raises
UpstreamError(c, e) ==
    /\ pc[c] = "stream"
    /\ Finally(c, e)
    /\ UNCHANGED <<auxVars, now, horizon, agents, max_concurrent, delay_between_requests, lock_owner,
                   last_request_time, chunk, nchunks, dispatches, cancelled, outcome,
                   generateVars>>

\* the caller's task is cancelled while stream_request is suspended in one of
\* its awaits: CancelledError is raised there
SuspendedInGateway(c) == pc[c] \in {"poll_sleep", "space_sleep", "stream"}

Cancel(c) ==
    /\ SuspendedInGateway(c)
    /\ c \notin cancelled
    /\ Cardinality(cancelled) < MaxCancels
    /\ cancelled' = cancelled \cup {c}
    /\ Finally(c, CancelledError)
    /\ UNCHANGED <<auxVars, now, horizon, agents, max_concurrent, delay_between_requests, lock_owner,
                   last_request_time, chunk, nchunks, dispatches, outcome, generateVars>>

Gateway(c, D, F) ==
    \/ Acquire(c)
    \/ AcquireTimeout(c)
    \/ PollWake(c)
    \/ Lock(c)
    \/ Schedule(c)
    \/ SpacingWake(c)
    \/ \E d \in D : UpstreamChunk(c, d)
    \/ UpstreamEnd(c)
    \/ \E e \in F : UpstreamError(c, e)
    \/ Cancel(c)

----------------------------------------------------------------------------
(* A caller that iterates stream_request and does nothing with the chunks *)

\* what its upstream sends: the text of a chunk and the kind of a failure
\* make no difference to stream_request
OpaqueDeltas == { <<"o", "k">> }
OpaqueFailures == { [type |-> "RuntimeError", status |-> NoStatus, detail |-> "connection lost"] }

Submit(c) ==
    /\ pc[c] = "idle"
    /\ pc' = [pc EXCEPT ![c] = "acquire"]
    /\ UNCHANGED <<auxVars, now, horizon, agents, gatewayVars, wake, exc, chunk, nchunks, dispatches,
                   cancelled, outcome, generateVars>>

SubmitterNext(c) ==
    /\ c \notin agents
    /\ pc[c] = "yielded"
    /\ pc' = [pc EXCEPT ![c] = "stream"]
    /\ chunk' = [chunk EXCEPT ![c] = <<>>]
    /\ UNCHANGED <<auxVars, now, horizon, agents, gatewayVars, wake, exc, nchunks, dispatches, cancelled,
                   outcome, generateVars>>

SubmitterExit(c) ==
    /\ c \notin agents
    /\ pc[c] = "exited"
    /\ pc' = [pc EXCEPT ![c] = "done"]
    /\ exc' = [exc EXCEPT ![c] = NoExc]
    /\ UNCHANGED <<auxVars, now, horizon, agents, gatewayVars, wake, chunk, nchunks, dispatches,
                   cancelled, outcome, generateVars>>

----------------------------------------------------------------------------
(* Time *)

\* a caller that can take a step without waiting for the clock or the upstream
Runnable(c) ==
    \/ pc[c] \in {"idle", "scheduling", "yielded", "exited", "prepare", "attempt"}
    \/ pc[c] \in {"acquire", "poll_sleep"} /\ semaphore > 0
    \/ pc[c] = "lock" /\ lock_owner = 0
    \/ pc[c] \in {"space_sleep", "backoff"} /\ now >= wake[c]

\* one second passes; computation takes no time
Tick ==
    /\ \A c \in Procs : ~Runnable(c)
    /\ now < horizon
    /\ \E c \in Procs : pc[c] \in {"space_sleep", "stream"}
    /\ now' = now + 1
    /\ UNCHANGED <<auxVars, horizon, agents, gatewayVars, callVars, generateVars>>

InitGateway ==
    /\ AuxIdle
    /\ now = StartTime
    /\ horizon = StartTime + MaxTime
    /\ max_concurrent \in {1, 2}
    /\ delay_between_requests \in {DefaultDelay}
    /\ semaphore = max_concurrent
    /\ lock_owner = 0
    /\ last_request_time = 0
    /\ pc = [c \in 1..NumSubmitters |-> "idle"]
    /\ agents = {}
    /\ holds = {}
    /\ sleep_needed = [c \in 1..NumSubmitters |-> 0]
    /\ wake = [c \in 1..NumSubmitters |-> 0]
    /\ exc = [c \in 1..NumSubmitters |-> NoExc]
    /\ chunk = [c \in 1..NumSubmitters |-> <<>>]
    /\ nchunks = [c \in 1..NumSubmitters |-> 0]
    /\ dispatches = <<>>
    /\ cancelled = {}
    /\ outcome = [c \in 1..NumSubmitters |-> "running"]
    /\ attempt = [c \in 1..NumSubmitters |-> 0]
    /\ requests = [c \in 1..NumSubmitters |-> 0]
    /\ accumulated_content = [c \in 1..NumSubmitters |-> <<>>]
    /\ last_error = [c \in 1..NumSubmitters |-> NoExc]
    /\ waits = [c \in 1..NumSubmitters |-> <<>>]
    /\ results = [c \in 1..NumSubmitters |-> <<>>]
    /\ raised = [c \in 1..NumSubmitters |-> NoRaise]

NextGateway ==
    \/ \E c \in Procs : Gateway(c, OpaqueDeltas, OpaqueFailures)
    \/ \E c \in Procs : Submit(c)
    \/ \E c \in Procs : SubmitterNext(c)
    \/ \E c \in Procs : SubmitterExit(c)
    \/ Tick

SpecGateway == InitGateway /\ [][NextGateway]_vars

----------------------------------------------------------------------------
(* The gateway under fair scheduling, with callers that submit again and
   again and are never cancelled *)

\* the caller's agent calls generate again: its next submission
Resubmit(c) ==
    /\ c \notin agents
    /\ pc[c] = "done"
    /\ pc' = [pc EXCEPT ![c] = "idle"]
    /\ UNCHANGED <<auxVars, now, horizon, agents, gatewayVars, wake, exc, chunk, nchunks,
                   dispatches, cancelled, outcome, generateVars>>

\* LLM_RATE_LIMIT_DELAY is 0 or unset
InitGatewayFair ==
    /\ AuxIdle
    /\ now = StartTime
    /\ horizon = StartTime + MaxTime
    /\ max_concurrent = 1
    /\ delay_between_requests \in {0, DefaultDelay}
    /\ semaphore = max_concurrent
    /\ lock_owner = 0
    /\ last_request_time = 0
    /\ pc = [c \in 1..NumWaiters |-> "idle"]
    /\ agents = {}
    /\ holds = {}
    /\ sleep_needed = [c \in 1..NumWaiters |-> 0]
    /\ wake = [c \in 1..NumWaiters |-> 0]
    /\ exc = [c \in 1..NumWaiters |-> NoExc]
    /\ chunk = [c \in 1..NumWaiters |-> <<>>]
    /\ nchunks = [c \in 1..NumWaiters |-> 0]
    /\ dispatches = <<>>
    /\ cancelled = {}
    /\ outcome = [c \in 1..NumWaiters |-> "running"]
    /\ attempt = [c \in 1..NumWaiters |-> 0]
    /\ requests = [c \in 1..NumWaiters |-> 0]
    /\ accumulated_content = [c \in 1..NumWaiters |-> <<>>]
    /\ last_error = [c \in 1..NumWaiters |-> NoExc]
    /\ waits = [c \in 1..NumWaiters |-> <<>>]
    /\ results = [c \in 1..NumWaiters |-> <<>>]
    /\ raised = [c \in 1..NumWaiters |-> NoRaise]

\* the steps of a caller that the event loop takes when they can be taken
CallerStep(c) ==
    \/ Submit(c)
    \/ Acquire(c)
    \/ AcquireTimeout(c)
    \/ PollWake(c)
    \/ Lock(c)
    \/ Schedule(c)
    \/ SpacingWake(c)
    \/ SubmitterNext(c)
    \/ SubmitterExit(c)

NextGatewayFair ==
    \/ \E c \in Procs : CallerStep(c)
    \/ \E c \in Procs : UpstreamChunk(c, <<"o", "k">>)
    \/ \E c \in Procs : UpstreamEnd(c)
    \/ \E c \in Procs : \E e \in OpaqueFailures : UpstreamError(c, e)
    \/ \E c \in Procs : Resubmit(c)
    \/ Tick

\* every caller goes on when it can, an acquire that can succeed again and
\* again does succeed, every upstream call ends, and the clock runs
FairGateway ==
    /\ \A c \in 1..NumWaiters :
          /\ WF_vars(CallerStep(c))
          /\ SF_vars(Acquire(c))
          /\ SF_vars(UpstreamEnd(c))
    /\ WF_vars(Tick)

SpecGatewayFair == InitGatewayFair /\ [][NextGatewayFair]_vars /\ FairGateway

----------------------------------------------------------------------------
(* strix/llm/llm.py: the retry policy *)

MAX_RETRIES == 5
RETRY_MULTIPLIER == 8
RETRY_MIN == 8
RETRY_MAX == 64

\* litellm._should_retry(status_code), the provider's table
LitellmShouldRetry(status_code) ==
    \/ status_code = 408
    \/ status_code = 409
    \/ status_code = 429
    \/ status_code >= 500

\* (a variant that retries whatever the status code)
_should_retry_always(exception) == TRUE

_should_retry(exception) ==
    IF exception.status # NoStatus THEN LitellmShouldRetry(exception.status) ELSE TRUE

\* wait_time of generate for the 0-indexed attempt that just failed
\* (a variant without the upper clamp and with the exponent one too high)
BackoffWaitDoubled(i) == Max(RETRY_MIN, RETRY_MULTIPLIER * (2 ^ (i + 1)))

BackoffWait(i) == Max(RETRY_MIN, Min(RETRY_MAX, RETRY_MULTIPLIER * (2 ^ i)))

\* the classes an exception is an instance of, besides its own
Bases(type) ==
    IF type = "ContextWindowExceededError" THEN {"ContextWindowExceededError", "BadRequestError"}
    ELSE {type}

error_map ==
    << <<"RateLimitError", "Rate limit exceeded">>,
       <<"AuthenticationError", "Invalid API key">>,
       <<"NotFoundError", "Model not found">>,
       <<"ContextWindowExceededError", "Context too long">>,
       <<"ContentPolicyViolationError", "Content policy violation">>,
       <<"ServiceUnavailableError", "Service unavailable">>,
       <<"Timeout", "Request timed out">>,
       <<"UnprocessableEntityError", "Unprocessable entity">>,
       <<"InternalServerError", "Internal server error">>,
       <<"APIConnectionError", "Connection error">>,
       <<"UnsupportedParamsError", "Unsupported parameters">>,
       <<"BudgetExceededError", "Budget exceeded">>,
       <<"APIResponseValidationError", "Response validation error">>,
       <<"JSONSchemaValidationError", "JSON schema validation error">>,
       <<"InvalidRequestError", "Invalid request">>,
       <<"BadRequestError", "Bad request">>,
       <<"APIError", "API error">>,
       <<"OpenAIError", "OpenAI error">> >>

\* the exception _raise_llm_error raises for e
\* (a variant that raises e itself)
_raise_llm_error_raw(e) == [type |-> e.type, message |-> e.detail, details |-> ""]

_raise_llm_error(e) ==
    LET hits == {k \in 1..Len(error_map) : error_map[k][1] \in Bases(e.type)}
    IN  [type |-> "LLMRequestFailedError",
         message |-> "LLM request failed: " \o
                     (IF hits # {} THEN error_map[MinOf(hits)][2] ELSE e.type),
         details |-> e.detail]

----------------------------------------------------------------------------
(* strix/llm/llm.py: generate, _stream_and_accumulate, _stream_request *)

\* generate is called: the messages are prepared and the loop is entered
Prepare(c) ==
    /\ pc[c] = "prepare"
    /\ attempt' = [attempt EXCEPT ![c] = 0]
    /\ pc' = [pc EXCEPT ![c] = "attempt"]
    /\ UNCHANGED <<auxVars, now, horizon, agents, gatewayVars, wake, exc, chunk, nchunks,
                   dispatches, cancelled, outcome, requests, accumulated_content,
                   last_error, waits, results, raised>>

\* an iteration of the loop starts _stream_and_accumulate, which starts
\* LLM._stream_request, which starts the gateway's stream_request
StartAttempt(c) ==
    /\ pc[c] = "attempt"
    /\ accumulated_content' = [accumulated_content EXCEPT ![c] = <<>>]
    /\ requests' = [requests EXCEPT ![c] = @ + 1]
    /\ pc' = [pc EXCEPT ![c] = "acquire"]
    /\ UNCHANGED <<auxVars, now, horizon, agents, gatewayVars, wake, exc, chunk, nchunks, dispatches,
                   cancelled, outcome, attempt, last_error, waits, results, raised>>

\* an LLMResponse as the caller sees it: its tool_invocations, whether it is
\* the one yielded after the stream ended, and the attempt that yielded it
\* (a variant that decodes the tool invocations for every partial response)
PartialResponseDecoded(content, i) ==
    [tool_invocations |-> parse_tool_invocations(content), final |-> FALSE, attempt |-> i]

\* (a variant that marks every response as the final one)
PartialResponseFinal(content, i) == [tool_invocations |-> None, final |-> TRUE, attempt |-> i]

PartialResponse(content, i) == [tool_invocations |-> None, final |-> FALSE, attempt |-> i]

\* (a variant that yields a partial response for every chunk)
HasDeltaAlways(delta) == TRUE

\* if delta: the chunk carries text (_extract_chunk_delta gives "" otherwise)
HasDelta(delta) == delta # <<>>

\* the body of the async for of _stream_and_accumulate for one chunk
Accumulate(c) ==
    /\ c \in agents
    /\ pc[c] = "yielded"
    /\ IF HasDelta(chunk[c])
          THEN LET content == TruncateAtFunctionEnd(accumulated_content[c] \o chunk[c])
               IN  /\ accumulated_content' = [accumulated_content EXCEPT ![c] = content]
                   /\ results' = [results EXCEPT ![c] =
                                     Append(@, PartialResponse(content, attempt[c]))]
          ELSE UNCHANGED <<accumulated_content, results>>
    /\ nchunks' = [nchunks EXCEPT ![c] = @ + 1]
    /\ chunk' = [chunk EXCEPT ![c] = <<>>]
    /\ pc' = [pc EXCEPT ![c] = "stream"]
    /\ UNCHANGED <<auxVars, now, horizon, agents, gatewayVars, wake, exc, dispatches, cancelled,
                   outcome, attempt, requests, last_error, waits, raised>>

\* "sep".join(parts)
RECURSIVE Join(_, _)
Join(parts, sep) ==
    IF parts = <<>> THEN <<>>
    ELSE IF Len(parts) = 1 THEN parts[1]
    ELSE parts[1] \o sep \o Join(Tail(parts), sep)

\* the text the upstream streamed: the deltas one after the other
Streamed(ds) == Join(ds, <<>>)

\* content of the final LLMResponse
\* (a variant that takes the whole streamed text)
FinalContentOfStream(content) == Streamed(deltas)

FinalContent(content) == TruncateAtFunctionEnd(_truncate_to_first_function(content))

\* tool_invocations of the LLMResponse that ends _stream_and_accumulate
FinalToolInvocations(content) ==
    LET tool_invocations == parse_tool_invocations(content)
    IN  IF Truthy(tool_invocations) THEN tool_invocations ELSE None

\* the stream ended without exception: the final LLMResponse, then return
FinishAttempt(c) ==
    /\ c \in agents
    /\ pc[c] = "exited"
    /\ exc[c] = NoExc
    /\ LET content == FinalContent(accumulated_content[c])
       IN  /\ accumulated_content' = [accumulated_content EXCEPT ![c] = content]
           /\ results' = [results EXCEPT ![c] =
                             Append(@, [tool_invocations |-> FinalToolInvocations(content),
                                        final |-> TRUE, attempt |-> attempt[c]])]
    /\ nchunks' = [nchunks EXCEPT ![c] = 0]
    /\ outcome' = [outcome EXCEPT ![c] = "returned"]
    /\ pc' = [pc EXCEPT ![c] = "done"]
    /\ UNCHANGED <<auxVars, now, horizon, agents, gatewayVars, wake, exc, chunk, dispatches, cancelled,
                   attempt, requests, last_error, waits, raised>>

\* the condition of the break in the except clause
GivesUp(e, i) == ~_should_retry(e) \/ i = MAX_RETRIES - 1

\* except Exception: break and raise the mapped error, or sleep and go on.
\* last_error is read by the raise after the loop only; when the loop goes on,
\* the next except clause overwrites it first, so it is kept only on the break
HandleFailure(c) ==
    /\ c \in agents
    /\ pc[c] = "exited"
    /\ exc[c] \notin {NoExc, CancelledError}
    /\ last_error' = [last_error EXCEPT ![c] =
                         IF GivesUp(exc[c], attempt[c]) THEN exc[c] ELSE NoExc]
    /\ exc' = [exc EXCEPT ![c] = NoExc]
    /\ IF GivesUp(exc[c], attempt[c])
          THEN /\ raised' = [raised EXCEPT ![c] = _raise_llm_error(exc[c])]
               /\ outcome' = [outcome EXCEPT ![c] = "raised"]
               /\ pc' = [pc EXCEPT ![c] = "done"]
               /\ nchunks' = [nchunks EXCEPT ![c] = 0]
               /\ UNCHANGED <<waits, wake>>
          ELSE /\ waits' = [waits EXCEPT ![c] = Append(@, BackoffWait(attempt[c]))]
               /\ wake' = [wake EXCEPT ![c] = now + BackoffWait(attempt[c])]
               /\ pc' = [pc EXCEPT ![c] = "backoff"]
               /\ UNCHANGED <<raised, outcome, nchunks>>
    /\ UNCHANGED <<auxVars, now, horizon, agents, gatewayVars, chunk, dispatches, cancelled, attempt,
                   requests, accumulated_content, results>>

\* asyncio.sleep(wait_time) returns: the next iteration of the loop over
\* range(MAX_RETRIES), or, when the range is used up, the raise after it
BackoffWake(c) ==
    /\ pc[c] = "backoff"
    /\ now >= wake[c]
    /\ wake' = [wake EXCEPT ![c] = 0]
    /\ IF attempt[c] + 1 < MAX_RETRIES
          THEN /\ attempt' = [attempt EXCEPT ![c] = @ + 1]
               /\ pc' = [pc EXCEPT ![c] = "attempt"]
               /\ UNCHANGED <<raised, outcome>>
          ELSE /\ raised' = [raised EXCEPT ![c] = _raise_llm_error(last_error[c])]
               /\ outcome' = [outcome EXCEPT ![c] = "raised"]
               /\ pc' = [pc EXCEPT ![c] = "done"]
               /\ UNCHANGED attempt
    /\ nchunks' = [nchunks EXCEPT ![c] = IF attempt[c] + 1 < MAX_RETRIES THEN @ ELSE 0]
    /\ UNCHANGED <<auxVars, now, horizon, agents, gatewayVars, exc, chunk, dispatches,
                   cancelled, requests, accumulated_content, last_error, waits, results>>

\* CancelledError is not an Exception: it leaves generate as it is
PropagateCancel(c) ==
    /\ c \in agents
    /\ pc[c] = "exited"
    /\ exc[c] = CancelledError
    /\ exc' = [exc EXCEPT ![c] = NoExc]
    /\ nchunks' = [nchunks EXCEPT ![c] = 0]
    /\ raised' = [raised EXCEPT ![c] = CancelledRaise]
    /\ outcome' = [outcome EXCEPT ![c] = "raised"]
    /\ pc' = [pc EXCEPT ![c] = "done"]
    /\ UNCHANGED <<auxVars, now, horizon, agents, gatewayVars, wake, chunk, dispatches, cancelled, attempt,
                   requests, accumulated_content, last_error, waits, results>>

\* the caller's task is cancelled during asyncio.sleep(wait_time)
CancelBackoff(c) ==
    /\ pc[c] = "backoff"
    /\ c \notin cancelled
    /\ Cardinality(cancelled) < MaxCancels
    /\ cancelled' = cancelled \cup {c}
    /\ wake' = [wake EXCEPT ![c] = 0]
    /\ raised' = [raised EXCEPT ![c] = CancelledRaise]
    /\ outcome' = [outcome EXCEPT ![c] = "raised"]
    /\ pc' = [pc EXCEPT ![c] = "done"]
    /\ nchunks' = [nchunks EXCEPT ![c] = 0]
    /\ UNCHANGED <<auxVars, now, horizon, agents, gatewayVars, exc, chunk, dispatches, attempt,
                   requests, accumulated_content, last_error, waits, results>>

Generate(c) ==
    \/ Prepare(c)
    \/ StartAttempt(c)
    \/ Accumulate(c)
    \/ FinishAttempt(c)
    \/ HandleFailure(c)
    \/ BackoffWake(c)
    \/ PropagateCancel(c)
    \/ CancelBackoff(c)

\* the clock runs on to the next instant at which a sleep ends
SleepUntilDue ==
    /\ \A c \in Procs : ~Runnable(c)
    /\ \E c \in Procs : pc[c] \in {"space_sleep", "backoff"}
    /\ now' = MinOf({wake[c] : c \in {x \in Procs : pc[x] \in {"space_sleep", "backoff"}}})
    /\ UNCHANGED <<auxVars, horizon, agents, gatewayVars, callVars, generateVars>>

\* one call of generate, by caller 1, while the other callers, who stand for
\* the calls of the other agents, go through the same gateway; what their
\* upstream streams carry is nothing to caller 1, so they just end
Callers == 1..(1 + NumOthers)

Init ==
    /\ AuxIdle
    /\ now = StartTime
    /\ horizon = StartTime
    /\ max_concurrent \in {1, 2}
    /\ delay_between_requests \in {DefaultDelay}
    /\ semaphore = max_concurrent
    /\ lock_owner = 0
    /\ last_request_time = 0
    /\ agents = {1}
    /\ pc = [c \in Callers |-> IF c = 1 THEN "prepare" ELSE "idle"]
    /\ holds = {}
    /\ sleep_needed = [c \in Callers |-> 0]
    /\ wake = [c \in Callers |-> 0]
    /\ exc = [c \in Callers |-> NoExc]
    /\ chunk = [c \in Callers |-> <<>>]
    /\ nchunks = [c \in Callers |-> 0]
    /\ dispatches = <<>>
    /\ cancelled = {}
    /\ outcome = [c \in Callers |-> "running"]
    /\ attempt = [c \in Callers |-> 0]
    /\ requests = [c \in Callers |-> 0]
    /\ accumulated_content = [c \in Callers |-> <<>>]
    /\ last_error = [c \in Callers |-> NoExc]
    /\ waits = [c \in Callers |-> <<>>]
    /\ results = [c \in Callers |-> <<>>]
    /\ raised = [c \in Callers |-> NoRaise]

Next ==
    \/ \E c \in agents : Gateway(c, Deltas, UpstreamFailures)
    \/ \E c \in agents : Generate(c)
    \/ \E c \in Procs \ agents : Gateway(c, {}, {})
    \/ \E c \in Procs \ agents : Submit(c)
    \/ \E c \in Procs \ agents : SubmitterExit(c)
    \/ SleepUntilDue

Spec == Init /\ [][Next]_vars

\* no caller, no call: the state of the gateway and of generate in the
\* specifications of the parts that do not run them
RuntimeIdle ==
    /\ now = StartTime
    /\ horizon = StartTime
    /\ max_concurrent = 1
    /\ delay_between_requests = DefaultDelay
    /\ semaphore = max_concurrent
    /\ lock_owner = 0
    /\ last_request_time = 0
    /\ agents = {}
    /\ pc = <<>>
    /\ holds = {}
    /\ sleep_needed = <<>>
    /\ wake = <<>>
    /\ exc = <<>>
    /\ chunk = <<>>
    /\ nchunks = <<>>
    /\ dispatches = <<>>
    /\ cancelled = {}
    /\ outcome = <<>>
    /\ attempt = <<>>
    /\ requests = <<>>
    /\ accumulated_content = <<>>
    /\ last_error = <<>>
    /\ waits = <<>>
    /\ results = <<>>
    /\ raised = <<>>

----------------------------------------------------------------------------
(* strix/llm/utils.py and the assembler as functions of text *)

format_tool_call(name, arguments) ==
    LET xml_parts ==
            << FUNCTION_OPEN \o name \o <<">">> >>
            \o [k \in 1..Len(arguments) |->
                   PARAMETER_OPEN \o arguments[k][1] \o <<">">> \o arguments[k][2]
                   \o PARAMETER_CLOSE]
            \o << FUNCTION_CLOSE >>
    IN  Join(xml_parts, <<"\n">>)

\* accumulated_content after the async for of _stream_and_accumulate has
\* consumed the deltas ds
RECURSIVE Accumulated(_)
Accumulated(ds) ==
    IF ds = <<>> THEN <<>>
    ELSE LET before == Accumulated(SubSeq(ds, 1, Len(ds) - 1))
             delta == ds[Len(ds)]
         IN  IF HasDelta(delta) THEN TruncateAtFunctionEnd(before \o delta) ELSE before

\* pieces the streamed texts are made of
Pieces ==
    { FUNCTION_OPEN \o <<"f", ">">>,
      FUNCTION_CLOSE,
      FUNCTION_OPEN \o <<"f", ">">> \o FUNCTION_CLOSE,
      PARAMETER_OPEN \o <<"p", ">", "v">> \o PARAMETER_CLOSE,
      <<"<", "/">>,
      <<"<", "/", "f", "u", "n", "c">>,
      <<"f", "u", "n", "c", "t", "i", "o", "n", ">">>,
      <<"x">>,
      <<" ">>,
      <<>> }

RECURSIVE SeqsUpTo(_, _)
SeqsUpTo(S, n) ==
    IF n = 0 THEN { <<>> }
    ELSE LET shorter == SeqsUpTo(S, n - 1)
         IN  shorter \cup { Append(q, x) : q \in shorter, x \in S }

\* tool names, keys and values of the calls that are formatted
ToolNames == { <<"f">>, <<"l", "i", "s", "t", "_", "f", "i", "l", "e", "s">> }
ArgKeys == { <<"p">>, <<"p", "a", "t", "h">> }
ArgValues ==
    { <<"/", "t", "m", "p">>,
      <<>>,
      <<" ", "v">>,
      <<"a", "&", "a", "m", "p", ";", "b">> }

\* ordered mappings: sequences of (key, value) pairs with distinct keys
ArgMaps ==
    { m \in SeqsUpTo(ArgKeys \X ArgValues, MaxArgs) :
          \A i, j \in 1..Len(m) : i # j => m[i][1] # m[j][1] }

\* _stream_and_accumulate on a stream that ends without error: the text
\* and the invocations of the last LLMResponse
AssembleStream ==
    /\ step = "stream"
    /\ text' = FinalContent(Accumulated(deltas))
    /\ invocations' = FinalToolInvocations(FinalContent(Accumulated(deltas)))
    /\ step' = "assembled"
    /\ UNCHANGED <<besidesText, deltas, tool_name, tool_args, repaired_again>>

\* parse_tool_invocations(text) on the streamed text
ParseText ==
    /\ step = "stream"
    /\ text' = Streamed(deltas)
    /\ invocations' = parse_tool_invocations(Streamed(deltas))
    /\ step' = "parsed"
    /\ UNCHANGED <<besidesText, deltas, tool_name, tool_args, repaired_again>>

\* fix_incomplete_tool_call(text) on the streamed text
RepairText ==
    /\ step = "stream"
    /\ text' = fix_incomplete_tool_call(Streamed(deltas))
    /\ step' = "repaired"
    /\ UNCHANGED <<besidesText, deltas, tool_name, tool_args, repaired_again, invocations>>

\* fix_incomplete_tool_call on the repaired text
RepairAgain ==
    /\ step = "repaired"
    /\ repaired_again' = fix_incomplete_tool_call(text)
    /\ step' = "repaired_again"
    /\ UNCHANGED <<besidesText, deltas, tool_name, tool_args, text, invocations>>

\* format_tool_call(tool_name, args)
FormatCall ==
    /\ step = "call"
    /\ text' = format_tool_call(tool_name, tool_args)
    /\ step' = "formatted"
    /\ UNCHANGED <<besidesText, deltas, tool_name, tool_args, repaired_again, invocations>>

\* parse_tool_invocations on the formatted call
ParseCall ==
    /\ step = "formatted"
    /\ invocations' = parse_tool_invocations(text)
    /\ step' = "decoded"
    /\ UNCHANGED <<besidesText, deltas, tool_name, tool_args, text, repaired_again>>

InitText ==
    /\ RuntimeIdle
    /\ HistoryIdle
    /\ CacheIdle
    /\ StatsIdle
    /\ QueueIdle
    /\ text = <<>>
    /\ repaired_again = <<>>
    /\ invocations = None
    /\ \/ /\ step = "stream"
          /\ deltas \in SeqsUpTo(Pieces, MaxDeltas)
          /\ tool_name = <<>>
          /\ tool_args = <<>>
       \/ /\ step = "call"
          /\ deltas = <<>>
          /\ tool_name \in ToolNames
          /\ tool_args \in ArgMaps

NextText ==
    \/ AssembleStream
    \/ ParseText
    \/ RepairText
    \/ RepairAgain
    \/ FormatCall
    \/ ParseCall

SpecText == InitText /\ [][NextText]_vars

----------------------------------------------------------------------------
(* strix/llm/llm.py: _prepare_messages *)

\* messages of a conversation, and the histories made of them
HistoryMessages == {"old", "summary"}
Histories == SeqsUpTo(HistoryMessages, MaxHistory)

\* messages = [system]; the identity message is appended when there is one
BuildMessages ==
    /\ prep = "start"
    /\ messages' = IF agent_name THEN <<"system", "identity">> ELSE <<"system">>
    /\ prep' = "compress"
    /\ UNCHANGED <<besidesHistory, agent_name, conversation_history, returned,
                   compressor_result, compressed_history, compressions, replacements,
                   attempt_messages>>

\* self.memory_compressor.compress_history(conversation_history) returns: the
\* list it was given, which it may have changed in place, or a new list
CompressHistory ==
    /\ prep = "compress"
    /\ \E history \in Histories :
          /\ compressor_result' = history
          /\ \/ /\ returned' = CallersList
                /\ conversation_history' = history
             \/ /\ returned' = NewList(history)
                /\ UNCHANGED conversation_history
    /\ compressions' = compressions + 1
    /\ prep' = "copy"
    /\ UNCHANGED <<besidesHistory, agent_name, compressed_history, messages, replacements,
                   attempt_messages>>

\* (a variant that binds the returned list itself)
ListCopyAliased(list) == list

\* list(...): a new list with the items of the argument
ListCopy(list) == NewList(Items(list))

\* compressed_history = list(...)
CopyResult ==
    /\ prep = "copy"
    /\ compressed_history' = ListCopy(returned)
    /\ prep' = "clear"
    /\ UNCHANGED <<besidesHistory, agent_name, conversation_history, returned,
                   compressor_result, messages, compressions, replacements,
                   attempt_messages>>

\* conversation_history.clear()
ClearHistory ==
    /\ prep = "clear"
    /\ conversation_history' = <<>>
    /\ prep' = "extend"
    /\ UNCHANGED <<besidesHistory, agent_name, returned, compressor_result,
                   compressed_history, messages, compressions, replacements,
                   attempt_messages>>

\* conversation_history.extend(compressed_history); messages.extend(compressed_history)
ExtendHistory ==
    /\ prep = "extend"
    /\ conversation_history' = conversation_history \o Items(compressed_history)
    /\ messages' = messages \o Items(compressed_history)
    /\ replacements' = replacements + 1
    /\ prep' = "prepared"
    /\ UNCHANGED <<besidesHistory, agent_name, returned, compressor_result,
                   compressed_history, compressions, attempt_messages>>

\* the loop of generate, as far as the messages go: an iteration gives
\* messages to _stream_and_accumulate
SendAttempt ==
    /\ prep = "prepared"
    /\ Len(attempt_messages) < MAX_RETRIES
    /\ attempt_messages' = Append(attempt_messages, messages)
    /\ prep' = "streaming"
    /\ UNCHANGED <<besidesHistory, agent_name, conversation_history, returned,
                   compressor_result, compressed_history, messages, compressions,
                   replacements>>

\* (a variant that prepares the messages again before the next attempt)
AfterFailureAtStart == "start"

\* where generate goes on after a failure that is retried: the next
\* iteration of the loop, below the call of _prepare_messages
AfterFailure == "prepared"

\* the attempt raises: break, or the next iteration
AttemptFails ==
    /\ prep = "streaming"
    /\ \E retryable \in BOOLEAN :
          prep' = IF retryable /\ Len(attempt_messages) < MAX_RETRIES
                     THEN AfterFailure ELSE "raised"
    /\ UNCHANGED <<besidesHistory, agent_name, conversation_history, returned,
                   compressor_result, compressed_history, messages, compressions,
                   replacements, attempt_messages>>

\* the attempt ends without exception: return
AttemptReturns ==
    /\ prep = "streaming"
    /\ prep' = "returned"
    /\ UNCHANGED <<besidesHistory, agent_name, conversation_history, returned,
                   compressor_result, compressed_history, messages, compressions,
                   replacements, attempt_messages>>

InitHistory ==
    /\ RuntimeIdle
    /\ TextIdle
    /\ CacheIdle
    /\ StatsIdle
    /\ QueueIdle
    /\ prep = "start"
    /\ agent_name \in BOOLEAN
    /\ conversation_history \in Histories
    /\ returned = NewList(<<>>)
    /\ compressor_result = <<>>
    /\ compressed_history = NewList(<<>>)
    /\ messages = <<>>
    /\ compressions = 0
    /\ replacements = 0
    /\ attempt_messages = <<>>

NextHistory ==
    \/ BuildMessages
    \/ CompressHistory
    \/ CopyResult
    \/ ClearHistory
    \/ ExtendHistory
    \/ SendAttempt
    \/ AttemptFails
    \/ AttemptReturns

SpecHistory == InitHistory /\ [][NextHistory]_vars

----------------------------------------------------------------------------
(* strix/llm/llm.py: the cache placement policy *)

max_cached_messages == 3

\* the while loop of _calculate_cache_interval
RECURSIVE SearchInterval(_, _)
SearchInterval(non_system_messages, interval) ==
    IF non_system_messages \div interval > max_cached_messages
       THEN SearchInterval(non_system_messages, interval + 10)
       ELSE interval

_calculate_cache_interval(total_messages) ==
    IF total_messages <= 1 THEN 10 ELSE SearchInterval(total_messages - 1, 10)

\* contents a message can have: a string, a list of parts whose last part
\* is a text part, a list whose last part is not (an image), an empty list
ContentKinds == {"str", "text_last", "image_last", "empty_list"}

\* _add_cache_control_to_content returns the content with a cache_control,
\* and not the content as it is
GetsCacheControl(kind) == kind \in {"str", "text_last"}

\* message list indices are those of Python: the first message has index 0
At(list, i) == list[i + 1]

\* (a variant that visits every message after the first)
LoopIndicesEvery(total_messages, interval) == 1..(total_messages - 1)

\* the indices the for loop visits before its break: range(interval,
\* total_messages, interval), cut after three
LoopIndices(total_messages, interval) ==
    { i \in 1..(total_messages - 1) :
          i % interval = 0 /\ i \div interval <= 3 }

\* the indices at which the returned list holds a copy of the message with
\* _add_cache_control_to_content applied to its content
Processed(list) ==
    (IF list # <<>> /\ At(list, 0).role = "system" THEN {0} ELSE {})
    \cup (IF Len(list) > 1
             THEN LoopIndices(Len(list), _calculate_cache_interval(Len(list)))
             ELSE {})

PolicyApplies ==
    /\ config.enable_prompt_caching
    /\ config.supports_prompt_caching
    /\ cache_input # <<>>
    /\ config.anthropic_model

\* whether a dict is the very object the caller's history holds: the first
\* message of the list is made by _prepare_messages, the others are the
\* caller's (no identity message here)
\* (a variant that binds the message itself and writes into it)
DictCopyAliased(callers) == callers

\* message.copy() and {**msg, ...}: a new dict
DictCopy(callers) == FALSE

\* cached_messages[i] = message with message the copy whose content was set;
\* an assignment to the content of a caller's dict shows in stored
_prepare_cached_messages ==
    LET processed == IF PolicyApplies THEN Processed(cache_input) ELSE {}
    IN  /\ cache_step = "input"
        /\ cached_messages' =
              [k \in 1..Len(cache_input) |->
                  [role |-> cache_input[k].role,
                   content |-> cache_input[k].content,
                   cache_control |-> /\ (k - 1) \in processed
                                     /\ GetsCacheControl(cache_input[k].content),
                   callers |-> k > 1 /\ ((k - 1) \in processed => DictCopy(TRUE))]]
        /\ stored' =
              [i \in 1..Len(stored) |->
                  IF i \in processed /\ DictCopy(TRUE)
                     THEN [stored[i] EXCEPT
                              !.cache_control = GetsCacheControl(stored[i].content)]
                     ELSE stored[i]]
        /\ cache_step' = "cached"
        /\ UNCHANGED <<besidesCache, config, cache_input, request_messages>>

\* isinstance(content, list): a string that got a cache_control is a list
\* of one text part
IsListContent(message) == message.content # "str" \/ message.cache_control

\* updated_msg of _filter_images_from_messages for one message. The parts
\* are text parts and image parts, so once the images are replaced by the
\* placeholder text every part is a text part and the content is the joined
\* string, which carries no cache_control; an empty list becomes "".
FilteredMessage(message) ==
    IF IsListContent(message)
       THEN [role |-> message.role, content |-> "str", cache_control |-> FALSE,
             placeholder |-> message.content = "image_last",
             callers |-> DictCopy(message.callers)]
       ELSE [role |-> message.role, content |-> message.content,
             cache_control |-> message.cache_control, placeholder |-> FALSE,
             callers |-> message.callers]

\* LLM._stream_request up to completion_args: the messages are filtered when
\* the model does not support vision
BuildCompletionArgs ==
    /\ cache_step = "cached"
    /\ request_messages' =
          [k \in 1..Len(cached_messages) |->
              IF ~config.supports_vision
                 THEN FilteredMessage(cached_messages[k])
                 ELSE [role |-> cached_messages[k].role,
                       content |-> cached_messages[k].content,
                       cache_control |-> cached_messages[k].cache_control,
                       placeholder |-> FALSE,
                       callers |-> cached_messages[k].callers]]
    /\ stored' =
          [i \in 1..Len(stored) |->
              IF /\ ~config.supports_vision
                 /\ IsListContent(At(cached_messages, i))
                 /\ DictCopy(At(cached_messages, i).callers)
                 THEN [content |-> "str", cache_control |-> FALSE,
                       placeholder |-> stored[i].content = "image_last"]
                 ELSE stored[i]]
    /\ cache_step' = "sent"
    /\ UNCHANGED <<besidesCache, config, cache_input, cached_messages>>

\* message lists of every length up to MaxMessages, all of string content
\* but for one message, at an index that is a multiple of 5
InitCache ==
    /\ RuntimeIdle
    /\ TextIdle
    /\ HistoryIdle
    /\ StatsIdle
    /\ QueueIdle
    /\ cache_step = "input"
    /\ config \in [enable_prompt_caching : BOOLEAN, supports_prompt_caching : BOOLEAN,
                    anthropic_model : BOOLEAN, supports_vision : BOOLEAN]
    /\ \E total \in 0..MaxMessages, first \in {"system", "user"}, kind \in ContentKinds :
       \E other \in {i \in 0..Max(total - 1, 0) : i % 5 = 0} :
          cache_input =
              [k \in 1..total |->
                  [role |-> IF k = 1 THEN first ELSE "user",
                   content |-> IF k - 1 = other THEN kind ELSE "str"]]
    /\ stored = [i \in 1..(Len(cache_input) - 1) |->
                    [content |-> At(cache_input, i).content, cache_control |-> FALSE,
                     placeholder |-> FALSE]]
    /\ cached_messages = <<>>
    /\ request_messages = <<>>

NextCache ==
    \/ _prepare_cached_messages
    \/ BuildCompletionArgs

SpecCache == InitCache /\ [][NextCache]_vars

----------------------------------------------------------------------------
(* strix/llm/llm.py: RequestStats *)

\* what stream_chunk_builder and completion_cost give for a finished stream:
\* no usage, a usage with a cost, a usage with cached tokens whose cost
\* could not be computed
Usages ==
    { [input_tokens |-> 0, output_tokens |-> 0, cached_tokens |-> 0,
       cache_creation_tokens |-> 0, cost |-> 0],
      [input_tokens |-> 2, output_tokens |-> 1, cached_tokens |-> 0,
       cache_creation_tokens |-> 1, cost |-> 1],
      [input_tokens |-> 1, output_tokens |-> 1, cached_tokens |-> 1,
       cache_creation_tokens |-> 0, cost |-> 0] }

\* (a variant that keeps the token and cost fields of the snapshot)
NewSnapshotMerged(previous) == [previous EXCEPT !.requests = 1]

\* self._last_request_stats = RequestStats(requests=1)
NewSnapshot(previous) == RequestStats(1)

\* LLM._stream_request up to its first chunk
StartRequest ==
    /\ stats_pc = "ready"
    /\ total_stats.requests < MaxRequests
    /\ total_stats' = [total_stats EXCEPT !.requests = @ + 1]
    /\ last_request_stats' = NewSnapshot(last_request_stats)
    /\ stats_pc' = "streaming"
    /\ UNCHANGED besidesStats

\* the stream ends after at least one chunk: _update_usage_stats
_update_usage_stats(usage) ==
    /\ stats_pc = "streaming"
    /\ total_stats' =
          [total_stats EXCEPT !.input_tokens = @ + usage.input_tokens,
                              !.output_tokens = @ + usage.output_tokens,
                              !.cached_tokens = @ + usage.cached_tokens,
                              !.cache_creation_tokens = @ + usage.cache_creation_tokens,
                              !.cost = @ + usage.cost]
    /\ last_request_stats' =
          [last_request_stats EXCEPT !.input_tokens = usage.input_tokens,
                                     !.output_tokens = usage.output_tokens,
                                     !.cached_tokens = usage.cached_tokens,
                                     !.cache_creation_tokens = usage.cache_creation_tokens,
                                     !.cost = usage.cost]
    /\ stats_pc' = "ready"
    /\ UNCHANGED besidesStats

\* the stream ends without a chunk, or the attempt fails: no statistics
EndWithoutUsage ==
    /\ stats_pc = "streaming"
    /\ stats_pc' = "ready"
    /\ UNCHANGED <<besidesStats, total_stats, last_request_stats>>

InitStats ==
    /\ RuntimeIdle
    /\ TextIdle
    /\ HistoryIdle
    /\ CacheIdle
    /\ QueueIdle
    /\ stats_pc = "ready"
    /\ total_stats = RequestStats(0)
    /\ last_request_stats = RequestStats(0)

NextStats ==
    \/ StartRequest
    \/ \E usage \in Usages : _update_usage_stats(usage)
    \/ EndWithoutUsage

SpecStats == InitStats /\ [][NextStats]_vars

----------------------------------------------------------------------------
(* strix/llm/request_queue.py: get_global_queue, called from several threads *)

Threads == 1..NumThreads

\* a thread calls get_global_queue
CallGetGlobalQueue(t) ==
    /\ thread_pc[t] = "idle"
    /\ thread_pc' = [thread_pc EXCEPT ![t] = "check"]
    /\ UNCHANGED <<besidesQueue, global_queue, instances, constructed, got>>

\* if _global_queue is None
CheckNone(t) ==
    /\ thread_pc[t] = "check"
    /\ thread_pc' = [thread_pc EXCEPT ![t] = IF global_queue = 0 THEN "construct" ELSE "load"]
    /\ UNCHANGED <<besidesQueue, global_queue, instances, constructed, got>>

\* LLMRequestQueue()
Construct(t) ==
    /\ thread_pc[t] = "construct"
    /\ instances' = instances + 1
    /\ constructed' = [constructed EXCEPT ![t] = instances + 1]
    /\ thread_pc' = [thread_pc EXCEPT ![t] = "store"]
    /\ UNCHANGED <<besidesQueue, global_queue, got>>

\* _global_queue = the new instance
StoreGlobal(t) ==
    /\ thread_pc[t] = "store"
    /\ global_queue' = constructed[t]
    /\ constructed' = [constructed EXCEPT ![t] = 0]
    /\ thread_pc' = [thread_pc EXCEPT ![t] = "load"]
    /\ UNCHANGED <<besidesQueue, instances, got>>

\* return _global_queue
ReturnGlobal(t) ==
    /\ thread_pc[t] = "load"
    /\ got' = [got EXCEPT ![t] = @ \cup {global_queue}]
    /\ thread_pc' = [thread_pc EXCEPT ![t] = "idle"]
    /\ UNCHANGED <<besidesQueue, global_queue, instances, constructed>>

InitQueue ==
    /\ RuntimeIdle
    /\ TextIdle
    /\ HistoryIdle
    /\ CacheIdle
    /\ StatsIdle
    /\ global_queue = 0
    /\ instances = 0
    /\ thread_pc = [t \in Threads |-> "idle"]
    /\ constructed = [t \in Threads |-> 0]
    /\ got = [t \in Threads |-> {}]

NextQueue ==
    \/ \E t \in Threads : CallGetGlobalQueue(t)
    \/ \E t \in Threads : CheckNone(t)
    \/ \E t \in Threads : Construct(t)
    \/ \E t \in Threads : StoreGlobal(t)
    \/ \E t \in Threads : ReturnGlobal(t)

SpecQueue == InitQueue /\ [][NextQueue]_vars

----------------------------------------------------------------------------
(* Properties of the gateway, checked under SpecGateway *)

AllDone == \A c \in Procs : pc[c] = "done"

\* C1: at no instant are more than max_concurrent callers between acquiring
\* a permit and releasing it.
ConcurrencyBound == Cardinality(holds) <= max_concurrent

\* C2: a submission that has left stream_request holds no permit, and once
\* all submissions have exited the semaphore is back at max_concurrent.
PermitsRestored ==
    /\ \A c \in Procs : pc[c] \in {"exited", "done"} => c \notin holds
    /\ AllDone => semaphore = max_concurrent

PermitsRestoredWitness ==
    /\ AllDone
    /\ cancelled # {}
    /\ Len(dispatches) >= 2

\* C3: every pass through the scheduling critical section moves
\* _last_request_time forward by at least delay_between_requests.
ReservationSpacing ==
    [][\A c \in Procs :
          (pc[c] = "scheduling" /\ pc'[c] # "scheduling")
             => last_request_time' >= last_request_time + delay_between_requests]_vars

\* two callers sleep towards two reserved slots at once
ReservationSpacingWitness ==
    \E c1, c2 \in Procs :
        /\ pc[c1] = "space_sleep" /\ pc[c2] = "space_sleep"
        /\ wake[c1] > now
        /\ wake[c2] >= wake[c1] + delay_between_requests
        /\ delay_between_requests > 0

ThreeDispatched ==
    /\ max_concurrent = 1
    /\ delay_between_requests = 4
    /\ Len(dispatches) = 3

\* C4 as stated: with max_concurrent = 1 and a delay of 4, the three
\* submissions issued at the start are dispatched 0, 4 and 8 seconds after it.
DispatchedAtZeroFourEight ==
    ThreeDispatched => dispatches = <<StartTime, StartTime + 4, StartTime + 8>>

\* C4 as amended: the first is dispatched at once and each later one at
\* least 4 seconds after the one before it, so none is earlier than 0, 4, 8.
DispatchedNoEarlier ==
    ThreeDispatched =>
        /\ dispatches[1] = StartTime
        /\ \A i \in 1..2 : dispatches[i + 1] >= dispatches[i] + 4
        /\ \A i \in 1..3 : dispatches[i] >= StartTime + 4 * (i - 1)

DispatchedNoEarlierWitness ==
    /\ ThreeDispatched
    /\ dispatches[3] > StartTime + 8

\* C21: the mutex is held by a caller in its scheduling computation only: no
\* caller that sleeps (polling or spacing), that is inside the upstream call
\* or that has handed a chunk to its consumer holds it, so a caller waiting
\* for the mutex waits for a scheduling computation and nothing else.
MutexOnlyForScheduling ==
    /\ lock_owner # 0 => pc[lock_owner] = "scheduling"
    /\ \A c \in Procs :
          pc[c] \in {"poll_sleep", "space_sleep", "stream", "yielded"} => lock_owner # c
    /\ \A c \in Procs :
          pc[c] = "lock" /\ lock_owner # 0 => pc[lock_owner] = "scheduling"

\* a caller has taken the mutex while another sleeps towards its slot
MutexOnlyForSchedulingWitness ==
    \E c1, c2 \in Procs :
        /\ pc[c1] = "scheduling" /\ lock_owner = c1
        /\ pc[c2] = "space_sleep" /\ wake[c2] > now

\* C25: a submission that leaves stream_request while it polls for a permit,
\* which it does not hold, leaves the number of available permits as it is.
ReleaseOnlyIfAcquired ==
    [][\A c \in Procs :
          (c \notin holds /\ pc[c] # "exited" /\ pc'[c] = "exited")
             => semaphore' = semaphore]_vars

\* C26: when no caller is cancelled and every upstream call ends, a
\* submission that polls for a permit is dispatched in the end, unless the
\* time the model covers runs out first.
EveryPollerDispatched ==
    \A c \in 1..NumWaiters :
        (pc[c] \in {"acquire", "poll_sleep"}) ~> (pc[c] = "stream" \/ now = horizon)

----------------------------------------------------------------------------
(* Properties of generate, checked under Spec *)

Returned(c) == pc[c] = "done" /\ outcome[c] = "returned"
Failed(c) == pc[c] = "done" /\ outcome[c] = "raised" /\ raised[c] # CancelledRaise

\* C5: a call of generate makes at most 5 upstream attempts, and the waits
\* it sleeps after its failed attempts are 8, 16, 32, 64 in this order, each
\* in [8, 64], with no wait after the fifth attempt.
RetryBudget ==
    \A c \in agents :
        /\ requests[c] <= 5
        /\ Len(waits[c]) <= 4
        /\ Len(waits[c]) <= requests[c]
        /\ \A i \in 1..Len(waits[c]) :
              /\ waits[c][i] = <<8, 16, 32, 64>>[i]
              /\ waits[c][i] >= 8 /\ waits[c][i] <= 64

RetryBudgetWitness ==
    \E c \in agents :
        /\ Failed(c)
        /\ requests[c] = 5
        /\ waits[c] = <<8, 16, 32, 64>>

NonRetryableStatus(e) ==
    e.status # NoStatus /\ e.status \notin {408, 409, 429} /\ e.status < 500

\* C6: a failure with a status code that the provider's table marks
\* non-retryable ends generate at once, with no sleep and no further attempt;
\* a failure without status code is retried while attempts remain.
RetryDecision ==
    [][\A c \in agents :
          /\ (pc[c] = "exited" /\ pc'[c] # "exited" /\ NonRetryableStatus(exc[c]))
                => /\ pc'[c] = "done" /\ outcome'[c] = "raised"
                   /\ waits'[c] = waits[c]
          /\ (/\ pc[c] = "exited" /\ pc'[c] # "exited"
              /\ exc[c] \notin {NoExc, CancelledError}
              /\ exc[c].status = NoStatus
              /\ requests[c] < 5)
                => /\ pc'[c] = "backoff"
                   /\ Len(waits'[c]) = Len(waits[c]) + 1
          /\ (pc[c] = "backoff" /\ pc'[c] # "backoff" /\ c \notin cancelled')
                => pc'[c] = "attempt"
          /\ (pc[c] = "attempt" /\ pc'[c] # "attempt")
                => requests'[c] = requests[c] + 1
          /\ pc[c] = "done" => requests'[c] = requests[c]]_vars

RetryDecisionWitness ==
    \E c \in agents :
        /\ Failed(c)
        /\ NonRetryableStatus(last_error[c])
        /\ requests[c] >= 2
        /\ Len(waits[c]) = requests[c] - 1

\* the kind that the error map gives to the exception types of the model
MappedKind(type) ==
    CASE type = "RateLimitError" -> "Rate limit exceeded"
      [] type = "ContextWindowExceededError" -> "Context too long"
      [] OTHER -> type

Finals(c) == {i \in 1..Len(results[c]) : results[c][i].final}

\* C8 as stated: a call of generate that was not cancelled shows its caller
\* either the results of one attempt, ending in one final result, or a
\* single Fatal error and no result at all.
StreamOrSingleFatal ==
    \A c \in agents :
        /\ Returned(c) =>
              /\ Finals(c) = {Len(results[c])}
              /\ \A i \in 1..Len(results[c]) : results[c][i].attempt = attempt[c]
        /\ Failed(c) => results[c] = <<>>

\* C8 as amended: the caller sees zero or more partial results, those of
\* failed attempts included, and then either exactly one final result, after
\* which nothing follows, or a single Fatal error and no final result.
PartialsThenFinalOrFatal ==
    \A c \in agents :
        /\ Finals(c) \subseteq {Len(results[c])}
        /\ Finals(c) # {} => Returned(c)
        /\ Returned(c) => Finals(c) = {Len(results[c])} /\ raised[c] = NoRaise
        /\ Failed(c) => Finals(c) = {} /\ raised[c].type = "LLMRequestFailedError"
        /\ \A i \in 1..Len(results[c]) :
              \A j \in i..Len(results[c]) : results[c][i].attempt <= results[c][j].attempt

PartialsThenFinalOrFatalWitness ==
    \E c \in agents :
        /\ Failed(c)
        /\ Len(results[c]) >= 2
        /\ results[c][1].attempt < results[c][2].attempt

\* C9: a caller cancelled while its call of generate is suspended gets the
\* cancellation: the permit is released, no further attempt is started and
\* the call ends with CancelledError, not with a retry or a Fatal error.
CancellationPropagates ==
    \A c \in agents \cap cancelled :
        /\ c \notin holds
        /\ pc[c] \in {"exited", "done"}
        /\ pc[c] = "exited" => exc[c] = CancelledError
        /\ pc[c] = "done" => raised[c] = CancelledRaise

\* C10: a call of generate that ends without error has emitted exactly one
\* final result, as its last result, carrying the invocations decoded from
\* its content or None; every result before it has tool_invocations unset.
OneFinalResultLast ==
    \A c \in agents :
        Returned(c) =>
            LET n == Len(results[c])
                decoded == ToolInvocationList(accumulated_content[c])
            IN  /\ n >= 1
                /\ results[c][n].final
                /\ results[c][n].tool_invocations =
                      (IF decoded = <<>> THEN None ELSE Some(decoded))
                /\ \A i \in 1..(n - 1) :
                      /\ ~results[c][i].final
                      /\ results[c][i].tool_invocations = None

OneFinalResultLastWitness ==
    \E c \in agents :
        /\ Returned(c)
        /\ Len(results[c]) >= 2
        /\ ~results[c][Len(results[c])].tool_invocations.is_none
        /\ results[c][1].attempt < attempt[c]

\* C11 as stated: every delta the assembler receives from the gateway is
\* followed by one more partial result.
PartialAfterEveryDelta ==
    [][\A c \in agents :
          nchunks'[c] = nchunks[c] + 1 => Len(results'[c]) = Len(results[c]) + 1]_vars

\* C11 as amended: a delta that carries text is followed by exactly one more
\* result, a partial one with tool_invocations unset and tagged with the
\* attempt; a delta without text is followed by none.
PartialAfterEveryTextDelta ==
    [][\A c \in agents :
          nchunks'[c] = nchunks[c] + 1 =>
              IF chunk[c] # <<>>
                 THEN /\ Len(results'[c]) = Len(results[c]) + 1
                      /\ SubSeq(results'[c], 1, Len(results[c])) = results[c]
                      /\ results'[c][Len(results'[c])] =
                             [tool_invocations |-> None, final |-> FALSE,
                              attempt |-> attempt[c]]
                 ELSE results'[c] = results[c]]_vars

\* a call that has consumed a delta with text and a delta without
PartialAfterEveryTextDeltaWitness ==
    \E c \in agents :
        /\ nchunks[c] = 2
        /\ Len(results[c]) = 1
        /\ ~results[c][1].final

----------------------------------------------------------------------------
(* Properties of the text functions, checked under SpecText *)

IsPrefix(p, s) == Len(p) <= Len(s) /\ SubSeq(s, 1, Len(p)) = p

\* C12: when the streamed text has two or more <function= openers, the
\* content of the final result is a prefix of the streamed text, has at most
\* one opener, and has nothing after the first </function> closer.
TruncationToFirstBlock ==
    step = "assembled" /\ CountFrom(Streamed(deltas), FUNCTION_OPEN, 1) >= 2 =>
        /\ IsPrefix(text, Streamed(deltas))
        /\ CountFrom(text, FUNCTION_OPEN, 1) <= 1
        /\ Contains(text, FUNCTION_CLOSE) =>
               FindFrom(text, FUNCTION_CLOSE, 1) + Len(FUNCTION_CLOSE) - 1 = Len(text)

\* two openers reached the end of the stream and the second was cut away
TruncationToFirstBlockWitness ==
    /\ step = "assembled"
    /\ CountFrom(Accumulated(deltas), FUNCTION_OPEN, 1) >= 2
    /\ CountFrom(text, FUNCTION_OPEN, 1) = 1
    /\ Len(text) < Len(Streamed(deltas))

\* C16: decoding the encoding of a tool name and an ordered args mapping
\* whose values hold no < and no > gives exactly one invocation, with that
\* name and those args.
CodecRoundTrip ==
    step = "decoded" =>
        invocations = Some(<< [toolName |-> tool_name, args |-> tool_args] >>)

\* C17: repairing a repaired text changes nothing, and a repaired text
\* decodes to the same invocations as the text it was made from.
RepairIdempotent ==
    step = "repaired_again" =>
        /\ repaired_again = text
        /\ parse_tool_invocations(text) = parse_tool_invocations(Streamed(deltas))

\* the first repair completed the text, which decodes to an invocation
RepairIdempotentWitness ==
    /\ step = "repaired_again"
    /\ text # Streamed(deltas)
    /\ EndsWith(Streamed(deltas), <<"<", "/">>)
    /\ ~parse_tool_invocations(text).is_none

\* C18: decoding gives None exactly when no function block decodes from the
\* text, and a list it gives is not empty; so does the assembler in its final
\* result.
NoResultIsNone ==
    step \in {"parsed", "decoded", "assembled"} =>
        /\ invocations.is_none <=> ToolInvocationList(text) = <<>>
        /\ ~invocations.is_none => invocations.list # <<>>

\* a text with openers from which no block decodes
NoResultIsNoneWitness ==
    /\ step = "parsed"
    /\ Contains(text, FUNCTION_OPEN)
    /\ invocations = None

\* the reference computation of the final content, on the raw text
DiscardFromSecondOpener(raw) ==
    IF CountFrom(raw, FUNCTION_OPEN, 1) >= 2
       THEN SubSeq(raw, 1, FindFrom(raw, FUNCTION_OPEN,
                                    FindFrom(raw, FUNCTION_OPEN, 1) + Len(FUNCTION_OPEN)) - 1)
       ELSE raw

CutAfterFirstCloser(s) ==
    IF FindFrom(s, FUNCTION_CLOSE, 1) # 0
       THEN SubSeq(s, 1, FindFrom(s, FUNCTION_CLOSE, 1) + Len(FUNCTION_CLOSE) - 1)
       ELSE s

\* C23 as stated: the content of the final result is the raw concatenation
\* of the deltas, cut before its second <function= opener when it has two
\* or more, and then cut after its first </function> closer.
FinalContentIsReference ==
    step = "assembled" =>
        text = CutAfterFirstCloser(DiscardFromSecondOpener(Streamed(deltas)))

\* C23 as amended: the content of the final result, computed from the buffer
\* that was cut after every delta, is the raw concatenation of the deltas,
\* cut before its second <function= opener when it has two or more and then
\* stripped of the whitespace it ends with, and then cut after its first
\* </function> closer.
FinalContentIsStrippedReference ==
    step = "assembled" =>
        LET raw == Streamed(deltas)
            kept == IF CountFrom(raw, FUNCTION_OPEN, 1) >= 2
                       THEN rstrip(DiscardFromSecondOpener(raw))
                       ELSE raw
        IN  text = CutAfterFirstCloser(kept)

\* the buffer the final computation starts from was cut and is not the raw
\* text, which has two openers
FinalContentIsStrippedReferenceWitness ==
    /\ step = "assembled"
    /\ Accumulated(deltas) # Streamed(deltas)
    /\ CountFrom(Streamed(deltas), FUNCTION_OPEN, 1) >= 2
    /\ Contains(text, FUNCTION_OPEN)

\* the text has exactly one <function= opener and no </function> closer
OneOpenerNoCloser(s) ==
    CountFrom(s, FUNCTION_OPEN, 1) = 1 /\ FindFrom(s, FUNCTION_CLOSE, 1) = 0

\* C24 as stated: the repair changes the text exactly when it has one
\* opener and no closer; then a text that ends with </ gets function>
\* appended, and any other text, one that ends with </func included, gets a
\* newline and </function> appended.
RepairRule ==
    step = "repaired" =>
        LET input == Streamed(deltas)
        IN  /\ text # input <=> OneOpenerNoCloser(input)
            /\ OneOpenerNoCloser(input) =>
                   text = IF EndsWith(input, <<"<", "/">>)
                             THEN input \o <<"f", "u", "n", "c", "t", "i", "o", "n", ">">>
                             ELSE input \o <<"\n">> \o FUNCTION_CLOSE

\* C24 as amended: the repair changes the text exactly when it has one
\* opener and no closer; then the whitespace the text ends with is removed,
\* and what is left gets function> appended when it ends with </, and a
\* newline and </function> otherwise, also when it ends with </func.
RepairRuleAfterStrip ==
    step = "repaired" =>
        LET input == Streamed(deltas)
            last == CHOOSE n \in 0..Len(input) :
                        /\ \A i \in (n + 1)..Len(input) : input[i] \in Whitespace
                        /\ n > 0 => input[n] \notin Whitespace
            stripped == SubSeq(input, 1, last)
        IN  /\ text # input <=> OneOpenerNoCloser(input)
            /\ OneOpenerNoCloser(input) =>
                   text = IF EndsWith(stripped, <<"<", "/">>)
                             THEN stripped \o <<"f", "u", "n", "c", "t", "i", "o", "n", ">">>
                             ELSE stripped \o <<"\n">> \o FUNCTION_CLOSE

\* a text cut inside its closer, after </func, and followed by whitespace
RepairRuleAfterStripWitness ==
    /\ step = "repaired"
    /\ OneOpenerNoCloser(Streamed(deltas))
    /\ EndsWith(Streamed(deltas), <<"<", "/", "f", "u", "n", "c", " ">>)
    /\ EndsWith(text, <<"c", "\n">> \o FUNCTION_CLOSE)

\* C27: the final result of an attempt carries no invocation or exactly
\* one, whatever number of function blocks the streamed text holds.
AtMostOneInvocation ==
    step = "assembled" => invocations.is_none \/ Len(invocations.list) = 1

\* two complete function blocks were streamed and one invocation is carried
AtMostOneInvocationWitness ==
    /\ step = "assembled"
    /\ Len(ToolInvocationList(Streamed(deltas))) >= 2
    /\ ~invocations.is_none
    /\ Len(invocations.list) = 1

----------------------------------------------------------------------------
(* Properties of the assembler's buffer, checked under Spec *)

\* the text ends with its first </function> closer
EndsAtFirstCloser(s) ==
    /\ Contains(s, FUNCTION_CLOSE)
    /\ FindFrom(s, FUNCTION_CLOSE, 1) + Len(FUNCTION_CLOSE) - 1 = Len(s)

\* C22: within one attempt, the content of a partial result is the content
\* of the previous one extended by the new delta as long as the buffer holds
\* no </function> closer; the partial result whose buffer first holds one
\* ends exactly at the first closer, and so does every later one, with the
\* same content whatever the later deltas are.
SpeculativeEarlyStop ==
    [][\A c \in agents :
          (nchunks'[c] = nchunks[c] + 1 /\ chunk[c] # <<>>) =>
              LET before == accumulated_content[c]
                  content == accumulated_content'[c]
              IN  /\ Len(results'[c]) = Len(results[c]) + 1
                  /\ IF Contains(before, FUNCTION_CLOSE)
                        THEN content = before /\ EndsAtFirstCloser(content)
                        ELSE IF Contains(before \o chunk[c], FUNCTION_CLOSE)
                        THEN /\ IsPrefix(content, before \o chunk[c])
                             /\ EndsAtFirstCloser(content)
                        ELSE content = before \o chunk[c]]_vars

\* two deltas with text in one attempt, the second after the closer: both
\* partial results have the content that ends at the closer
SpeculativeEarlyStopWitness ==
    \E c \in agents :
        /\ pc[c] = "stream"
        /\ nchunks[c] = 2
        /\ Len(results[c]) = 2
        /\ results[c][1].attempt = results[c][2].attempt
        /\ accumulated_content[c] = FUNCTION_OPEN \o <<"f", ">">> \o FUNCTION_CLOSE

----------------------------------------------------------------------------
(* Properties of _prepare_messages, checked under SpecHistory *)

\* C13: after the preparation the list object the caller passed in holds
\* the items of the compressed history the compressor returned, in their
\* order, also when the compressor returned that very list object.
HistoryReplaced ==
    prep = "prepared" =>
        /\ conversation_history = compressor_result
        /\ Items(compressed_history) = compressor_result

\* the compressor shortened the caller's list in place and returned it
HistoryReplacedWitness ==
    /\ prep = "prepared"
    /\ returned.same_object
    /\ conversation_history = <<"summary", "old">>

\* C28: a call of generate calls the compressor once and replaces the
\* caller's history once, both before its first attempt; every attempt is
\* given the same message list, and after the preparation no attempt,
\* failure or retry changes the caller's history or that list.
PreparedOnce ==
    /\ compressions <= 1 /\ replacements <= 1
    /\ attempt_messages # <<>> => compressions = 1 /\ replacements = 1
    /\ \A i \in 1..Len(attempt_messages) :
          /\ attempt_messages[i] = attempt_messages[1]
          /\ attempt_messages[i] = messages
    /\ prep \in {"prepared", "streaming", "returned", "raised"} =>
          /\ conversation_history = compressor_result
          /\ messages = (IF agent_name THEN <<"system", "identity">> ELSE <<"system">>)
                            \o compressor_result

\* generate raises after five attempts on the same messages
PreparedOnceWitness ==
    /\ prep = "raised"
    /\ Len(attempt_messages) = MAX_RETRIES
    /\ compressor_result # <<>>
    /\ returned.same_object

----------------------------------------------------------------------------
(* Properties of the cache placement policy, checked under SpecCache *)

Marked == { i \in 0..(Len(cached_messages) - 1) : At(cached_messages, i).cache_control }

\* C14: whatever the length of the list, at most 4 messages of the returned
\* list are marked: the system message and at most 3 others.
CacheBound ==
    cache_step = "cached" =>
        /\ Cardinality(Marked) <= 4
        /\ Cardinality(Marked \ {0}) <= 3

\* a list long enough for the interval 20, with the system message and three more marked
CacheBoundWitness ==
    /\ cache_step = "cached"
    /\ Len(cached_messages) = 41
    /\ Marked = {0, 20, 40}

\* C15: when the policy applies to a list of n + 1 messages with the system
\* message first, the interval is the smallest multiple of 10 with
\* n \div interval <= 3, and the messages marked beside the system message
\* are those at interval, 2 * interval and 3 * interval inside the list; with
\* n = 20, indices 0, 10 and 20 are marked.
CachePositions ==
    cache_step = "cached" /\ PolicyApplies /\ At(cache_input, 0).role = "system" =>
        LET n == Len(cache_input) - 1
            interval == _calculate_cache_interval(n + 1)
        IN  /\ interval % 10 = 0
            /\ n \div interval <= 3
            /\ \A smaller \in 1..(interval - 1) :
                   smaller % 10 = 0 => n \div smaller > 3
            /\ Marked \ {0} = {interval, 2 * interval, 3 * interval} \cap (0..n)
            /\ n = 20 => Marked = {0, 10, 20}

\* C29: neither the cache marking nor the image filtering writes into a
\* message of the caller's history: every message the caller holds has the
\* content it had, without cache marker and without image placeholder.
HistoryNotWritten ==
    \A i \in 1..Len(stored) :
        /\ stored[i].content = At(cache_input, i).content
        /\ ~stored[i].cache_control
        /\ ~stored[i].placeholder

\* messages of the history were marked and an image was replaced in the
\* list of the request
HistoryNotWrittenWitness ==
    /\ cache_step = "sent"
    /\ Marked \ {0} # {}
    /\ \E k \in 1..Len(request_messages) : request_messages[k].placeholder
    /\ \E k \in 1..Len(request_messages) : request_messages[k].callers

\* C30: every message the cache policy marked is marked in the list of
\* the request, whether the model supports vision or not.
CacheMarkersReachUpstream ==
    cache_step = "sent" => \A i \in Marked : At(request_messages, i).cache_control

----------------------------------------------------------------------------
(* Properties of RequestStats, checked under SpecStats *)

StatsFields == DOMAIN RequestStats(0)

\* C19: the start of an upstream attempt replaces the snapshot of the last
\* request by a fresh record, in which only requests is not 0, and no step
\* makes a counter of the lifetime total smaller.
SnapshotReplacedTotalsGrow ==
    [][/\ total_stats'.requests # total_stats.requests =>
              /\ total_stats'.requests = total_stats.requests + 1
              /\ last_request_stats' = RequestStats(1)
       /\ \A f \in StatsFields : total_stats'[f] >= total_stats[f]]_vars

\* an attempt has started after one that left tokens and cost in the snapshot
SnapshotReplacedTotalsGrowWitness ==
    /\ stats_pc = "streaming"
    /\ total_stats.requests >= 2
    /\ total_stats.input_tokens > 0
    /\ total_stats.cost > 0
    /\ last_request_stats = RequestStats(1)

----------------------------------------------------------------------------
(* Properties of get_global_queue, checked under SpecQueue *)

\* C20: whatever the interleaving of the calls, every instance that a call
\* of get_global_queue has returned is the one instance _global_queue holds
\* from then on: all calls return the same instance and it is never replaced.
SingletonGateway ==
    /\ \A t \in Threads : got[t] \subseteq {global_queue}
    /\ \A t, u \in Threads : Cardinality(got[t] \cup got[u]) <= 1

====
